---- MODULE Spec2Model ----
(***************************************************************************)
(* rustproxy-cli: the two commands set-proxy and clear-proxy acting on     *)
(* ~/.cargo/config.toml and its .backup sibling.                           *)
(*                                                                         *)
(* A file is a sequence of lines.  A line is a table header, a key/value   *)
(* pair (the value a scalar or an inline table) or a line that is not      *)
(* TOML.  Parse builds the toml_edit document tree from the lines and      *)
(* to_string writes the tree back, so that reading and writing a file is a  *)
(* round trip through the tree and not the identity.  Whitespace and       *)
(* comments are not modelled.                                              *)
(***************************************************************************)
EXTENDS Integers, Sequences, FiniteSets

VARIABLES dir, config, backup, last, pre, prev, pre2, ops

vars == <<dir, config, backup, last, pre, prev, pre2, ops>>

\* The longest config file (in lines) the first command may find.
MaxLines == 2

\* The number of commands run one after the other.
MaxOps == 2

-----------------------------------------------------------------------------
(* toml_edit items.  kind is "none" (no item), "value" (a scalar),         *)
(* "inline" (Item::Value holding an inline table) or "table" (Item::Table);*)
(* items is the table's IndexMap, a sequence of [key, item] entries.       *)

NoItem == [kind |-> "none", val |-> "", items |-> <<>>, implicit |-> FALSE, pos |-> 0]

value(s) == [kind |-> "value", val |-> s, items |-> <<>>, implicit |-> FALSE, pos |-> 0]

InlineTable(its) == [kind |-> "inline", val |-> "", items |-> its, implicit |-> FALSE, pos |-> 0]

TableAt(its, imp, p) == [kind |-> "table", val |-> "", items |-> its, implicit |-> imp, pos |-> p]

\* Table::new(): an empty standard table, not implicit, with no position.
TableNew == TableAt(<<>>, FALSE, 0)

\* DocumentMut::new(): the empty document (its root table).
DocumentNew == TableNew

Entry(k, it) == [key |-> k, item |-> it]

IndexOf(t, k) ==
  LET hits == {i \in 1..Len(t.items) : t.items[i].key = k} IN
  IF hits = {} THEN 0 ELSE CHOOSE i \in hits : TRUE

\* Table::get / get_mut: the item under key k, NoItem for None.
Get(t, k) == LET i == IndexOf(t, k) IN IF i = 0 THEN NoItem ELSE t.items[i].item

\* Table::remove: shift_remove of the key, the order of the others kept.
Remove(t, k) == [t EXCEPT !.items = SelectSeq(t.items, LAMBDA e : e.key # k)]

\* Table::insert: the value replaced in place when the key exists, else appended.
Insert(t, k, it) ==
  LET i == IndexOf(t, k) IN
  IF i = 0
  THEN [t EXCEPT !.items = Append(t.items, Entry(k, it))]
  ELSE [t EXCEPT !.items[i] = Entry(k, it)]

IsTable(it) == it.kind = "table"

\* A `&mut` child changed in place: the key keeps its place in the parent.
WithChild(t, k, child) == Insert(t, k, child)

-----------------------------------------------------------------------------
(* remove_proxy_config                                                     *)

\* A slip in remove_proxy_config: the whole [source] table removed.
RemoveSourceWhole(doc) == Remove(doc, "source")

\* `replace-with` out of [source.crates-io]; [source.rsproxy] and
\* [source.rsproxy-sparse] out of [source]; all of it only when `source`
\* is an Item::Table, the first only when `crates-io` is one too.
RemoveSource(doc) ==
  LET source_table == Get(doc, "source") IN
  IF IsTable(source_table)
  THEN LET crates_io == Get(source_table, "crates-io")
           s1 == IF IsTable(crates_io)
                 THEN WithChild(source_table, "crates-io", Remove(crates_io, "replace-with"))
                 ELSE source_table
       IN WithChild(doc, "source", Remove(Remove(s1, "rsproxy"), "rsproxy-sparse"))
  ELSE doc

RemoveRegistries(doc) ==
  LET registries == Get(doc, "registries") IN
  IF IsTable(registries)
  THEN WithChild(doc, "registries", Remove(registries, "rsproxy"))
  ELSE doc

RemoveNet(doc) ==
  LET net == Get(doc, "net") IN
  IF IsTable(net)
  THEN WithChild(doc, "net", Remove(net, "git-fetch-with-cli"))
  ELSE doc

remove_proxy_config(doc) == RemoveNet(RemoveRegistries(RemoveSource(doc)))

-----------------------------------------------------------------------------
(* add_proxy_config.  proxy_url is the function's second parameter; the    *)
(* body never reads it: every value it inserts is a literal.               *)

CratesIoNew == Insert(TableNew, "replace-with", value("rsproxy-sparse"))

AddSourceCratesIo(doc, proxy_url) ==
  LET source_table == Get(doc, "source") IN
  IF source_table.kind # "none"
  THEN IF IsTable(source_table)
       THEN LET crates_io == Get(source_table, "crates-io") IN
            IF crates_io.kind # "none"
            THEN IF IsTable(crates_io)
                 THEN WithChild(doc, "source",
                        WithChild(source_table, "crates-io",
                          Insert(crates_io, "replace-with", value("rsproxy-sparse"))))
                 ELSE doc
            ELSE WithChild(doc, "source", Insert(source_table, "crates-io", CratesIoNew))
       ELSE doc
  ELSE Insert(doc, "source", Insert(TableNew, "crates-io", CratesIoNew))

AddSourceRsproxy(doc, proxy_url) ==
  LET source_table == Get(doc, "source") IN
  IF IsTable(source_table)
  THEN WithChild(doc, "source",
         Insert(source_table, "rsproxy",
           Insert(TableNew, "registry", value("https://rsproxy.cn/crates.io-index"))))
  ELSE doc

AddSourceRsproxySparse(doc, proxy_url) ==
  LET source_table == Get(doc, "source") IN
  IF IsTable(source_table)
  THEN WithChild(doc, "source",
         Insert(source_table, "rsproxy-sparse",
           Insert(TableNew, "registry", value("sparse+https://rsproxy.cn/index/"))))
  ELSE doc

RsproxyRegistryNew == Insert(TableNew, "index", value("https://rsproxy.cn/crates.io-index"))

AddRegistries(doc, proxy_url) ==
  LET registries == Get(doc, "registries") IN
  IF registries.kind # "none"
  THEN IF IsTable(registries)
       THEN WithChild(doc, "registries", Insert(registries, "rsproxy", RsproxyRegistryNew))
       ELSE doc
  ELSE Insert(doc, "registries", Insert(TableNew, "rsproxy", RsproxyRegistryNew))

AddNet(doc, proxy_url) ==
  LET net == Get(doc, "net") IN
  IF net.kind # "none"
  THEN IF IsTable(net)
       THEN WithChild(doc, "net", Insert(net, "git-fetch-with-cli", value("true")))
       ELSE doc
  ELSE Insert(doc, "net", Insert(TableNew, "git-fetch-with-cli", value("true")))

add_proxy_config(doc, proxy_url) ==
  AddNet(
    AddRegistries(
      AddSourceRsproxySparse(
        AddSourceRsproxy(
          AddSourceCratesIo(doc, proxy_url), proxy_url), proxy_url), proxy_url), proxy_url)

-----------------------------------------------------------------------------
(* The text of a file and its parsing (str::parse::<DocumentMut>).         *)

Header(path) == [t |-> "H", path |-> path, key |-> "", val |-> NoItem]

KeyVal(k, v) == [t |-> "KV", path |-> <<>>, key |-> k, val |-> v]

\* A line that is not TOML.
Garbage == [t |-> "BAD", path |-> <<>>, key |-> "", val |-> NoItem]

RECURSIVE DefineTable(_, _, _)
\* The header [path] read at line p: the table is created (its missing
\* parents as implicit tables), or an implicit table becomes explicit;
\* a second definition, or a parent that is no table, is an error.
DefineTable(t, path, p) ==
  LET k == Head(path)
      child == Get(t, k)
  IN IF Len(path) = 1
     THEN IF child.kind = "none"
          THEN [ok |-> TRUE, t |-> Insert(t, k, TableAt(<<>>, FALSE, p))]
          ELSE IF IsTable(child) /\ child.implicit
          THEN [ok |-> TRUE, t |-> WithChild(t, k, [child EXCEPT !.implicit = FALSE, !.pos = p])]
          ELSE [ok |-> FALSE, t |-> t]
     ELSE IF child.kind = "none" \/ IsTable(child)
          THEN LET r == DefineTable(IF IsTable(child) THEN child ELSE TableAt(<<>>, TRUE, 0),
                                    Tail(path), p)
               IN [ok |-> r.ok, t |-> Insert(t, k, r.t)]
          ELSE [ok |-> FALSE, t |-> t]

RECURSIVE InsertAt(_, _, _, _)
\* key = val read under the header [path]; a key already there is an error.
InsertAt(t, path, k, v) ==
  IF path = <<>>
  THEN IF Get(t, k).kind = "none"
       THEN [ok |-> TRUE, t |-> Insert(t, k, v)]
       ELSE [ok |-> FALSE, t |-> t]
  ELSE LET r == InsertAt(Get(t, Head(path)), Tail(path), k, v)
       IN [ok |-> r.ok, t |-> WithChild(t, Head(path), r.t)]

RECURSIVE ParseFrom(_, _, _, _)
ParseFrom(text, i, root, cur) ==
  IF i > Len(text) THEN [ok |-> TRUE, doc |-> root]
  ELSE LET line == text[i] IN
       IF line.t = "H"
       THEN LET r == DefineTable(root, line.path, i) IN
            IF r.ok THEN ParseFrom(text, i + 1, r.t, line.path)
            ELSE [ok |-> FALSE, doc |-> DocumentNew]
       ELSE IF line.t = "KV"
       THEN LET r == InsertAt(root, cur, line.key, line.val) IN
            IF r.ok THEN ParseFrom(text, i + 1, r.t, cur)
            ELSE [ok |-> FALSE, doc |-> DocumentNew]
       ELSE [ok |-> FALSE, doc |-> DocumentNew]

\* content.parse::<DocumentMut>(): Ok(doc) or Err.
Parse(text) == ParseFrom(text, 1, DocumentNew, <<>>)

\* A slip in the recovery: the lines that are not TOML skipped, the others kept.
ParseLenient(text) ==
  LET r == Parse(SelectSeq(text, LAMBDA l : l.t # "BAD")) IN
  IF r.ok THEN r.doc ELSE DocumentNew

\* content.parse::<DocumentMut>().unwrap_or_else(|_| DocumentMut::new())
ParseOrNew(text) == LET r == Parse(text) IN IF r.ok THEN r.doc ELSE DocumentNew

-----------------------------------------------------------------------------
(* doc.to_string(): the root's values, then every table with its header    *)
(* and values.  The tables are visited depth first, a table without a      *)
(* position takes the position of the table visited before it, and the     *)
(* tables are written in the order of their positions.  An implicit table  *)
(* without values of its own writes no header.                             *)

RECURSIVE Visit(_, _, _)
RECURSIVE VisitItems(_, _, _, _)

Visit(t, path, lastPos) ==
  LET p == IF t.pos # 0 THEN t.pos ELSE lastPos
      vals == SelectSeq(t.items, LAMBDA e : e.item.kind \in {"value", "inline"})
      kvs == [i \in 1..Len(vals) |-> KeyVal(vals[i].key, vals[i].item)]
      visible == Len(path) > 0 /\ ~(t.implicit /\ Len(vals) = 0)
      own == [pos |-> p, lines |-> (IF visible THEN <<Header(path)>> ELSE <<>>) \o kvs]
      rest == VisitItems(t.items, 1, path, p)
  IN [entries |-> <<own>> \o rest.entries, last |-> rest.last]

VisitItems(items, i, path, lastPos) ==
  IF i > Len(items) THEN [entries |-> <<>>, last |-> lastPos]
  ELSE IF IsTable(items[i].item)
  THEN LET r == Visit(items[i].item, Append(path, items[i].key), lastPos)
           s == VisitItems(items, i + 1, path, r.last)
       IN [entries |-> r.entries \o s.entries, last |-> s.last]
  ELSE VisitItems(items, i + 1, path, lastPos)

RECURSIVE Flatten(_)
Flatten(entries) ==
  IF entries = <<>> THEN <<>> ELSE Head(entries).lines \o Flatten(Tail(entries))

RECURSIVE Gather(_, _, _)
\* tables.sort_by_key(position): a stable sort.
Gather(entries, p, maxPos) ==
  IF p > maxPos THEN <<>>
  ELSE Flatten(SelectSeq(entries, LAMBDA e : e.pos = p)) \o Gather(entries, p + 1, maxPos)

to_string(doc) ==
  LET entries == Visit(doc, <<>>, 0).entries
      maxPos == CHOOSE m \in {entries[i].pos : i \in 1..Len(entries)} :
                  \A i \in 1..Len(entries) : entries[i].pos <= m
  IN Gather(entries, 0, maxPos)

-----------------------------------------------------------------------------
(* The command line argument and its resolution.                           *)

get_predefined_proxies ==
  << [name |-> "rsproxy", url |-> "https://rsproxy.cn/crates.io-index/"],
     [name |-> "ustc",    url |-> "https://mirrors.ustc.edu.cn/crates.io-index/"],
     [name |-> "tuna",    url |-> "https://mirrors.tuna.tsinghua.edu.cn/crates.io-index/"],
     [name |-> "aliyun",  url |-> "https://mirrors.aliyun.com/crates.io-index/"] >>

\* The arguments set-proxy is run with.
Args == {"USTC", "https://e.io/", "http://e.io/", "HTTPS://e.io/", "tunas"}

\* The arguments of the runs that start from the larger set of config files.
DocArgs == {"USTC", "https://e.io/", "tunas"}

\* The characters of the strings that are compared character by character.
Chars(s) ==
  CASE s = "rsproxy" -> <<"r", "s", "p", "r", "o", "x", "y">>
    [] s = "ustc" -> <<"u", "s", "t", "c">>
    [] s = "tuna" -> <<"t", "u", "n", "a">>
    [] s = "aliyun" -> <<"a", "l", "i", "y", "u", "n">>
    [] s = "USTC" -> <<"U", "S", "T", "C">>
    [] s = "tunas" -> <<"t", "u", "n", "a", "s">>
    [] s = "https://e.io/" -> <<"h", "t", "t", "p", "s", ":", "/", "/", "e", ".", "i", "o", "/">>
    [] s = "http://e.io/" -> <<"h", "t", "t", "p", ":", "/", "/", "e", ".", "i", "o", "/">>
    [] s = "HTTPS://e.io/" -> <<"H", "T", "T", "P", "S", ":", "/", "/", "e", ".", "i", "o", "/">>
    [] s = "http://" -> <<"h", "t", "t", "p", ":", "/", "/">>
    [] s = "https://" -> <<"h", "t", "t", "p", "s", ":", "/", "/">>

LowerChar(c) ==
  CASE c = "C" -> "c" [] c = "H" -> "h" [] c = "P" -> "p" [] c = "S" -> "s"
    [] c = "T" -> "t" [] c = "U" -> "u" [] OTHER -> c

to_lowercase(cs) == [i \in 1..Len(cs) |-> LowerChar(cs[i])]

starts_with(cs, prefix) ==
  Len(cs) >= Len(prefix) /\ SubSeq(cs, 1, Len(prefix)) = prefix

\* A slip in the resolution: the scheme compared ignoring case, too.
ResolveAnyCase(proxy) ==
  LET table == get_predefined_proxies
      lower == to_lowercase(Chars(proxy))
      hits == {i \in 1..Len(table) : Chars(table[i].name) = lower}
  IN IF hits # {}
     THEN [ok |-> TRUE, url |-> table[CHOOSE i \in hits : \A j \in hits : i <= j].url]
     ELSE IF starts_with(lower, Chars("http://")) \/ starts_with(lower, Chars("https://"))
     THEN [ok |-> TRUE, url |-> proxy]
     ELSE [ok |-> FALSE, url |-> ""]

\* The first lines of set_proxy: the alias found in the table (compared
\* with the lowercased argument), else the argument itself when it starts
\* with http:// or https://, else no URL (the process exits with status 1).
Resolve(proxy) ==
  LET table == get_predefined_proxies
      hits == {i \in 1..Len(table) : Chars(table[i].name) = to_lowercase(Chars(proxy))}
  IN IF hits # {}
     THEN [ok |-> TRUE, url |-> table[CHOOSE i \in hits : \A j \in hits : i <= j].url]
     ELSE IF starts_with(Chars(proxy), Chars("http://"))
             \/ starts_with(Chars(proxy), Chars("https://"))
     THEN [ok |-> TRUE, url |-> proxy]
     ELSE [ok |-> FALSE, url |-> ""]

-----------------------------------------------------------------------------
(* The file system: ~/.cargo, ~/.cargo/config.toml, ~/.cargo/config.backup *)

NoFile == [exists |-> FALSE, text |-> <<>>]

File(text) == [exists |-> TRUE, text |-> text]

\* A slip in the backup: the parsed document written, not the bytes.
CopyReformatted(file) == File(to_string(ParseOrNew(file.text)))

\* fs::copy: the bytes of the source file.
Copy(file) == file

\* A slip in the backup: no copy made.
BackupSkipped(fs, file) == fs

\* fs::copy(&config_path, &backup_path)?, when it succeeds.
BackupExisting(fs, file) == [fs EXCEPT !.backup = Copy(file)]

\* The file system calls of the two commands, each of which may fail.
\* fs::write opens (and truncates) the file and then writes the data:
\* "write" is the failure to open, "write_all" the failure to write.
Faults == {"create_dir_all", "read_to_string", "copy", "write", "write_all"}

Outcome(fs, exit, url, log, failed, stderr) ==
  [dir |-> fs.dir, config |-> fs.config, backup |-> fs.backup,
   exit |-> exit, url |-> url, log |-> log, failed |-> failed, stderr |-> stderr]

\* fs::write(&config_path, doc.to_string())? and the Ok(()) after it.
WriteConfig(fs, text, fault, url, log) ==
  IF fault = "write"
  THEN Outcome(fs, "err", url, Append(log, "write"), "write", TRUE)
  ELSE IF fault = "write_all"
  THEN Outcome([fs EXCEPT !.config = File(<<>>)], "err", url, Append(log, "write"), "write_all", TRUE)
  ELSE Outcome([fs EXCEPT !.config = File(text)], "ok", url, Append(log, "write"), "none", FALSE)

\* set_proxy, from the resolved URL to the written file.  exit is "ok",
\* "exit1" (std::process::exit(1)) or "err" (main returns the io::Error).
set_proxy(proxy, fault, fs) ==
  LET r == Resolve(proxy)
      exists == fs.config.exists
  IN
  IF ~r.ok THEN Outcome(fs, "exit1", "", <<>>, "none", TRUE)
  ELSE IF fault = "create_dir_all"
  THEN Outcome(fs, "err", r.url, <<"create_dir_all">>, fault, TRUE)
  ELSE LET fs1 == [fs EXCEPT !.dir = TRUE]
           log1 == IF exists THEN <<"create_dir_all", "read_to_string">>
                             ELSE <<"create_dir_all">>
       IN
       IF exists /\ fault = "read_to_string"
       THEN Outcome(fs1, "err", r.url, log1, fault, TRUE)
       ELSE LET doc == IF exists THEN ParseOrNew(fs.config.text) ELSE DocumentNew
                log2 == IF exists THEN Append(log1, "copy") ELSE log1
            IN
            IF exists /\ fault = "copy"
            THEN Outcome(fs1, "err", r.url, log2, fault, TRUE)
            ELSE LET fs2 == IF exists THEN BackupExisting(fs1, fs.config) ELSE fs1
                     doc2 == add_proxy_config(remove_proxy_config(doc), r.url)
                 IN WriteConfig(fs2, to_string(doc2), fault, r.url, log2)

\* clear_proxy.
clear_proxy(fault, fs) ==
  IF ~fs.config.exists THEN Outcome(fs, "ok", "", <<>>, "none", FALSE)
  ELSE IF fault = "copy"
  THEN Outcome(fs, "err", "", <<"copy">>, fault, TRUE)
  ELSE LET fs1 == BackupExisting(fs, fs.config) IN
       IF fault = "read_to_string"
       THEN Outcome(fs1, "err", "", <<"copy", "read_to_string">>, fault, TRUE)
       ELSE LET doc == ParseOrNew(fs.config.text) IN
            WriteConfig(fs1, to_string(remove_proxy_config(doc)), fault, "",
                        <<"copy", "read_to_string">>)

-----------------------------------------------------------------------------
(* The state: the file system, the last command run and its outcome, the   *)
(* file system before it, the command before it and the config file before *)
(* that one.                                                               *)

FS == [dir |-> dir, config |-> config, backup |-> backup]

NoCommand == [cmd |-> "none", arg |-> "", exit |-> "ok"]

Summary(l) == [cmd |-> l.cmd, arg |-> l.arg, exit |-> l.exit]

\* The lines an initial config file is made of.
Lines ==
  { Header(<<"source">>), Header(<<"source", "crates-io">>), Header(<<"net">>),
    Header(<<"registries", "rsproxy">>), Header(<<"build">>),
    KeyVal("replace-with", value("mirror")),
    KeyVal("git-fetch-with-cli", value("false")),
    KeyVal("jobs", value("4")),
    KeyVal("net", InlineTable(<<Entry("git-fetch-with-cli", value("true"))>>)),
    KeyVal("crates-io", InlineTable(<<Entry("replace-with", value("mirror"))>>)),
    KeyVal("source", InlineTable(<<Entry("crates-io",
       InlineTable(<<Entry("replace-with", value("mirror"))>>))>>)),
    Garbage }

\* The lines of the initial config file of the runs with failing calls.
LinesIO == {Header(<<"net">>), KeyVal("git-fetch-with-cli", value("false")), Garbage}

TextsOf(lines) == UNION {[1..n -> lines] : n \in 0..MaxLines}

NoOutcome ==
  [cmd |-> "none", arg |-> "", exit |-> "ok", url |-> "", log |-> <<>>,
   failed |-> "none", stderr |-> FALSE]

InitWith(lines) ==
  /\ config \in {NoFile} \cup {File(t) : t \in TextsOf(lines)}
  /\ dir \in (IF config.exists THEN {TRUE} ELSE BOOLEAN)
  /\ backup = NoFile
  /\ last = NoOutcome
  /\ pre = FS
  /\ prev = NoCommand
  /\ pre2 = config
  /\ ops = 0

Init == InitWith(Lines)

InitIO == InitWith(LinesIO)

\* The outcome o of a command becomes the state.
Run(cmd, arg, o) ==
  /\ ops' = ops + 1
  /\ dir' = o.dir
  /\ config' = o.config
  /\ backup' = o.backup
  /\ last' = [cmd |-> cmd, arg |-> arg, exit |-> o.exit, url |-> o.url, log |-> o.log,
              failed |-> o.failed, stderr |-> o.stderr]
  /\ pre' = FS
  /\ prev' = Summary(last)
  /\ pre2' = pre.config

\* One run of `rustproxy set-proxy <proxy>`; fault is the call that fails
\* in it, "none" when every call succeeds.
SetProxy(proxy, fault) ==
  /\ ops < MaxOps
  /\ LET o == set_proxy(proxy, fault, FS) IN
     o.failed = fault /\ Run("set", proxy, o)

\* One run of `rustproxy clear-proxy`.
ClearProxy(fault) ==
  /\ ops < MaxOps
  /\ LET o == clear_proxy(fault, FS) IN
     o.failed = fault /\ Run("clear", "", o)

\* The commands run with no failing file system call.
Next ==
  \/ \E proxy \in DocArgs : SetProxy(proxy, "none")
  \/ ClearProxy("none")

Spec == Init /\ [][Next]_vars

\* The commands run with any one call failing, or none.
NextIO ==
  \/ \E proxy \in Args, fault \in Faults \cup {"none"} : SetProxy(proxy, fault)
  \/ \E fault \in Faults \cup {"none"} : ClearProxy(fault)

SpecIO == InitIO /\ [][NextIO]_vars

-----------------------------------------------------------------------------
(* What the claims speak of.                                               *)

RECURSIVE Lookup(_, _)
\* The item a dotted path names, through standard and inline tables alike.
Lookup(it, path) ==
  IF path = <<>> THEN it
  ELSE IF it.kind \in {"table", "inline"} THEN Lookup(Get(it, Head(path)), Tail(path))
  ELSE NoItem

\* The proxy-related keys.
KnownKeys ==
  { <<"source", "crates-io", "replace-with">>, <<"source", "rsproxy">>,
    <<"source", "rsproxy-sparse">>, <<"registries", "rsproxy">>,
    <<"net", "git-fetch-with-cli">> }

\* The document a command finds in a file: the empty one when there is no
\* file or it is not TOML.
DocOf(file) == IF file.exists THEN ParseOrNew(file.text) ELSE DocumentNew

HasKey(file, path) == Lookup(DocOf(file), path).kind # "none"

Succeeded(cmd) == last.cmd = cmd /\ last.exit = "ok"

\* The file is TOML and holds one active redirection: replace-with under
\* source.crates-io is a string and names a source of the same document.
OneRedirection(file) ==
  /\ file.exists
  /\ Parse(file.text).ok
  /\ LET doc == Parse(file.text).doc
         rw == Lookup(doc, <<"source", "crates-io", "replace-with">>)
     IN /\ rw.kind = "value"
        /\ Lookup(doc, <<"source", rw.val>>).kind \in {"table", "inline"}

RECURSIVE EntriesFrom(_, _, _)
\* The sections and keys written in a text: every header with its path and
\* every key with its full path and value, read line by line.
EntriesFrom(text, i, cur) ==
  IF i > Len(text) THEN {}
  ELSE IF text[i].t = "H"
  THEN {[path |-> text[i].path, val |-> NoItem]} \cup EntriesFrom(text, i + 1, text[i].path)
  ELSE IF text[i].t = "KV"
  THEN {[path |-> Append(cur, text[i].key), val |-> text[i].val]}
         \cup EntriesFrom(text, i + 1, cur)
  ELSE EntriesFrom(text, i + 1, cur)

Entries(file) == EntriesFrom(file.text, 1, <<>>)

IsPrefix(p, q) == Len(p) <= Len(q) /\ SubSeq(q, 1, Len(p)) = p

\* Neither a known proxy key nor something inside one.
Unrelated(e) == \A k \in KnownKeys : ~IsPrefix(k, e.path)

-----------------------------------------------------------------------------
\* The text to_string writes: it is TOML again.
WrittenFileParses ==
  (last.exit = "ok" /\ config.exists /\ last.cmd # "none") => Parse(config.text).ok

\* C1: after a successful set-proxy, whatever the config file held before,
\* the written document holds exactly one active redirection:
\* source.crates-io.replace-with is there once and names a source defined
\* in the same document.
C1_OneRedirectionAfterSet == Succeeded("set") => OneRedirection(config)

\* The part of C1 the code keeps: when `source` and `source.crates-io` are
\* absent or standard tables in the document set-proxy reads.
C1_StandardTables ==
  LET doc == DocOf(pre.config) IN
  (/\ Succeeded("set")
   /\ Get(doc, "source").kind \in {"none", "table"}
   /\ Lookup(doc, <<"source", "crates-io">>).kind \in {"none", "table"})
  => OneRedirection(config)

\* The registry URLs of the redirection block of a file.
RegistryURLs(file) ==
  LET doc == DocOf(file) IN
  { Lookup(doc, p).val :
      p \in { q \in { <<"source", "rsproxy", "registry">>,
                      <<"source", "rsproxy-sparse", "registry">>,
                      <<"registries", "rsproxy", "index">> } :
               Lookup(doc, q).kind = "value" } }

\* C2: set-proxy resolves its argument to a URL, the redirection block it
\* writes points at that URL (the URL it reports is found in the file), and
\* two successful set-proxy in a row whose arguments resolve to different
\* URLs leave different registry URLs in the file.
C2_WritesResolvedUrl ==
  Succeeded("set") =>
    /\ last.url \in RegistryURLs(config)
    /\ (prev.cmd = "set" /\ prev.exit = "ok" /\ Resolve(prev.arg).url # last.url)
         => RegistryURLs(config) # RegistryURLs(pre.config)

\* The resolution C2 states, argument by argument: an alias in any case
\* gives the alias's URL, an argument starting with http:// or https://
\* gives itself, and the URL reported is the resolved one.
ResolutionAsStated ==
  Succeeded("set") =>
    /\ last.arg \in {"USTC", "https://e.io/", "http://e.io/"}
    /\ last.url = (IF last.arg = "USTC"
                   THEN "https://mirrors.ustc.edu.cn/crates.io-index/"
                   ELSE last.arg)

\* C3: every set-proxy or clear-proxy that succeeds on an existing config
\* file leaves every section and key that is not a known proxy key in the
\* written file, with the same value.
C3_UnrelatedPreserved ==
  ((Succeeded("set") \/ Succeeded("clear")) /\ pre.config.exists)
  => \A e \in Entries(pre.config) : Unrelated(e) => e \in Entries(config)

\* C3 as amended: the same, for an existing config file that is TOML.
C3_UnrelatedPreservedWhenParsed ==
  ((Succeeded("set") \/ Succeeded("clear")) /\ pre.config.exists
     /\ Parse(pre.config.text).ok)
  => \A e \in Entries(pre.config) : Unrelated(e) => e \in Entries(config)

\* A command has succeeded on a TOML file that held a known proxy key and
\* an unrelated key beside it in the same table, and the unrelated key is
\* in the written file.
C3_Witness ==
  /\ Succeeded("clear") /\ pre.config.exists /\ Parse(pre.config.text).ok
  /\ HasKey(pre.config, <<"source", "crates-io", "replace-with">>)
  /\ ~HasKey(config, <<"source", "crates-io", "replace-with">>)
  /\ \E e \in Entries(pre.config) :
        Unrelated(e) /\ e.val.kind = "value" /\ IsPrefix(<<"source", "crates-io">>, e.path)
          /\ e \in Entries(config)

\* C4: after a successful clear-proxy on an existing config file, at the
\* end of any sequence of commands, the file holds none of the proxy keys.
C4_NoProxyKeysAfterClear ==
  (Succeeded("clear") /\ pre.config.exists)
  => \A k \in KnownKeys : ~HasKey(config, k)

\* set-proxy twice with the same argument, or clear-proxy twice, both
\* successful: the second leaves the file the first wrote.
SameFileWhenRepeated ==
  (/\ last.exit = "ok" /\ prev.exit = "ok"
   /\ \/ last.cmd = "set" /\ prev.cmd = "set" /\ prev.arg = last.arg
      \/ last.cmd = "clear" /\ prev.cmd = "clear")
  => config = pre.config

\* C5: set-proxy twice in a row with the same argument leaves the file
\* that set-proxy once leaves, with exactly one redirection block, and
\* clear-proxy twice leaves the file that clear-proxy once leaves.
C5_Idempotent ==
  /\ SameFileWhenRepeated
  /\ (Succeeded("set") /\ prev.cmd = "set" /\ prev.exit = "ok" /\ prev.arg = last.arg)
       => OneRedirection(config)

-----------------------------------------------------------------------------
\* C6: after every successful set-proxy or clear-proxy on an existing
\* config file, the .backup file is, byte for byte, the config file as it
\* was just before that command; each command overwrites the backup the
\* one before it left.
C6_BackupIsPreEdit ==
  ((Succeeded("set") \/ Succeeded("clear")) /\ pre.config.exists)
  => backup = pre.config

\* A second command has succeeded on an existing config file and has
\* replaced the backup the first one left by another content.
C6_Witness ==
  /\ (Succeeded("set") \/ Succeeded("clear")) /\ pre.config.exists
  /\ pre.backup.exists /\ pre.backup # backup
  /\ backup = pre.config

\* "copy" comes before place i of the log.
CopyBefore(log, i) == \E j \in 1..(i - 1) : log[j] = "copy"

\* C7: in every run of set-proxy or clear-proxy each write of the config
\* file comes after a completed write of the .backup file in the same run,
\* and a failed backup copy ends the run with that error, the config file
\* unchanged.
C7_BackupBeforeEveryWrite ==
  /\ \A i \in 1..Len(last.log) :
       last.log[i] = "write" => (CopyBefore(last.log, i) /\ backup = pre.config)
  /\ last.failed = "copy" => (last.exit = "err" /\ config = pre.config)

\* C7 as amended: the same for every write of a config file that existed
\* when the command started; set-proxy on a missing config file creates it
\* with no backup written.
C7_BackupBeforeWriteOfExisting ==
  /\ \A i \in 1..Len(last.log) :
       last.log[i] = "write" =>
         IF pre.config.exists
         THEN CopyBefore(last.log, i) /\ backup = pre.config
         ELSE ~CopyBefore(last.log, i) /\ backup = pre.backup /\ last.cmd = "set"
  /\ last.failed = "copy" => (last.exit = "err" /\ config = pre.config)

\* A command has written an existing config file that differed from the
\* backup left before, after copying it to the backup.
C7_Witness ==
  /\ pre.config.exists /\ pre.backup # pre.config
  /\ Len(last.log) > 0 /\ last.log[Len(last.log)] = "write"
  /\ CopyBefore(last.log, Len(last.log))
  /\ config # pre.config /\ backup = pre.config

BadArgs == {"HTTPS://e.io/", "tunas"}

\* C8: set-proxy with an argument that is neither a known alias nor starts
\* with http:// or https:// reports the error and exits with a non-zero
\* status; the config file, the .backup file and the .cargo directory are
\* neither created nor modified.
C8_UnknownProxyTouchesNothing ==
  (last.cmd = "set" /\ last.arg \in BadArgs)
  => /\ last.exit = "exit1" /\ last.stderr
     /\ last.log = <<>>
     /\ dir = pre.dir /\ config = pre.config /\ backup = pre.backup

\* set-proxy has been run with such an argument where ~/.cargo did not
\* exist, and where a config file and a backup did.
C8_Witness ==
  /\ last.cmd = "set" /\ last.arg \in BadArgs
  /\ \/ ~pre.dir
     \/ pre.config.exists /\ pre.backup.exists

\* The file set-proxy writes from the empty document.
SetBlock ==
  << Header(<<"source">>),
     Header(<<"source", "crates-io">>), KeyVal("replace-with", value("rsproxy-sparse")),
     Header(<<"source", "rsproxy">>),
       KeyVal("registry", value("https://rsproxy.cn/crates.io-index")),
     Header(<<"source", "rsproxy-sparse">>),
       KeyVal("registry", value("sparse+https://rsproxy.cn/index/")),
     Header(<<"registries">>),
     Header(<<"registries", "rsproxy">>),
       KeyVal("index", value("https://rsproxy.cn/crates.io-index")),
     Header(<<"net">>), KeyVal("git-fetch-with-cli", value("true")) >>

\* The command was given a config file and a valid argument, and no call
\* other than the reading of the config file failed.
RanOnExisting ==
  /\ last.cmd \in {"set", "clear"} /\ last.exit # "exit1"
  /\ pre.config.exists
  /\ last.failed \in {"none", "read_to_string"}

AsFromEmpty ==
  /\ last.exit = "ok"
  /\ config = File(IF last.cmd = "set" THEN SetBlock ELSE <<>>)

\* C9: a config file that cannot be read or is not TOML is not fatal:
\* both commands go on with the empty document and succeed, set-proxy
\* writing the redirection block alone and clear-proxy an empty document.
C9_UnreadableOrUnparseableAsEmpty ==
  (RanOnExisting /\ (last.failed = "read_to_string" \/ ~Parse(pre.config.text).ok))
  => AsFromEmpty

\* C9 as amended: a config file that is not TOML is not fatal, as above;
\* a config file that cannot be read ends the command with the I/O error,
\* the config file unchanged.
C9_UnparseableAsEmptyUnreadableFatal ==
  /\ (RanOnExisting /\ last.failed = "none" /\ ~Parse(pre.config.text).ok) => AsFromEmpty
  /\ (RanOnExisting /\ last.failed = "read_to_string")
       => (last.exit = "err" /\ config = pre.config)

\* set-proxy has succeeded on a config file that is not TOML but has lines
\* that are.
C9_Witness ==
  /\ RanOnExisting /\ Succeeded("set")
  /\ ~Parse(pre.config.text).ok
  /\ Entries(pre.config) # {}
  /\ config = File(SetBlock)

PrevSetSucceeded == prev.cmd = "set" /\ prev.exit = "ok"

\* C10: set-proxy then clear-proxy does not restore the file: a
\* source.crates-io.replace-with, registries.rsproxy or
\* net.git-fetch-with-cli the file held before the set-proxy is absent
\* after the clear-proxy, and the top-level tables source (with
\* source.crates-io), registries and net that set-proxy created are still
\* in the file after clear-proxy.
C10_SetThenClear ==
  (PrevSetSucceeded /\ Succeeded("clear"))
  => /\ \A k \in { <<"source", "crates-io", "replace-with">>,
                    <<"registries", "rsproxy">>, <<"net", "git-fetch-with-cli">> } :
          HasKey(pre2, k) => ~HasKey(config, k)
     /\ \A t \in {"source", "registries", "net"} :
          ~HasKey(pre2, <<t>>) => <<t>> \in {e.path : e \in Entries(config)}
     /\ ~HasKey(pre2, <<"source">>)
          => <<"source", "crates-io">> \in {e.path : e \in Entries(config)}

\* The part of C10 about the tables set-proxy created.
CreatedTablesRemain ==
  (PrevSetSucceeded /\ Succeeded("clear"))
  => /\ \A t \in {"source", "registries", "net"} :
          ~HasKey(pre2, <<t>>) => <<t>> \in {e.path : e \in Entries(config)}
     /\ ~HasKey(pre2, <<"source">>)
          => <<"source", "crates-io">> \in {e.path : e \in Entries(config)}

====
